---- MODULE Spec2Model ----
(***************************************************************************)
(* bindAndCopyWeight.py: bind a destination mesh to the joints of a source *)
(* mesh and copy the skin weights through UV space.  The host scene (node  *)
(* types, shapes, skinCluster connections, influences, UV sets, selection) *)
(* is the state the maya.cmds calls read and change; main is modelled      *)
(* statement group by statement group, with every host call it issues      *)
(* appended to the log `calls`.                                            *)
(***************************************************************************)
EXTENDS Integers, Sequences, FiniteSets, TLC

VARIABLES
    selection,              \* main: result of cmds.ls(selection=True, long=True) or []
    userSourceUVSet,        \* main: argument
    userDestinationUVSet,   \* main: argument
    skinInputs,             \* host: node -> skinClusters connected as inputs
    influences,             \* host: skinCluster -> its influences
    uvSets,                 \* host: shape -> its UV sets
    hostSelection,          \* host: the active selection list
    pc,                     \* position in main / the direct helper call
    exception,              \* the Python exception that ended the call, "" if none
    calls,                  \* the host mutations issued, in order
    warnings,               \* cmds.warning messages, in order
    errors,                 \* cmds.error messages, in order
    sourceInfluence, destinationInfluence,
    sourceSkin, destinationSkin,
    sourceUVSet, destinationUVSet,
    uvReturned,             \* the two lists getUVSet returned at lines 162-163
    queried, gscResult      \* direct call getSkinCluster(name=queried) and its result

vars == << selection, userSourceUVSet, userDestinationUVSet, skinInputs, influences,
           uvSets, hostSelection, pc, exception, calls, warnings, errors,
           sourceInfluence, destinationInfluence, sourceSkin, destinationSkin,
           sourceUVSet, destinationUVSet, uvReturned, queried, gscResult >>

----------------------------------------------------------------------------
(* Bounds *)

\* the longest selection list the user hands to main
MaxSel == 3

----------------------------------------------------------------------------
(* Python values: None, a str, a list of str *)

PyNone == [t |-> "None", v |-> << >>]
PyStr(s) == [t |-> "str", v |-> << s >>]
PyList(q) == [t |-> "list", v |-> q]

\* Python truthiness: None, '' and [] are false
Truthy(x) ==
    CASE x.t = "None" -> FALSE
      [] x.t = "str"  -> x.v[1] # ""
      [] x.t = "list" -> x.v # << >>

\* isinstance(x, list)
IsList(x) == x.t = "list"

\* a in b for a str a and b a list of str
InList(a, q) == \E i \in 1..Len(q) : q[i] = a

\* the outcome of a call: a returned value, or the exception it raised
Ret(x) == [exc |-> "", val |-> x]
Raise(e) == [exc |-> e, val |-> PyNone]

----------------------------------------------------------------------------
(* The host scene *)

Transforms == {"|A", "|B", "|G"}
MeshShapes == {"|A|s", "|A|o", "|B|s"}
Joints == {"j1", "j2", "j3"}
\* "x" is a dependency node (not a DAG node) downstream of a skinCluster
Nodes == Transforms \cup MeshShapes \cup Joints \cup {"x"}
NewSkin == "skinCluster1"
SkinClusters == {"scA", "scB", "scC", "scX", NewSkin}

\* cmds.nodeType(name)
NodeType(n) ==
    CASE n \in Transforms -> "transform"
      [] n \in MeshShapes -> "mesh"
      [] n \in Joints     -> "joint"
      [] OTHER            -> "blendShape"

\* cmds.listRelatives(name, shapes=True, fullPath=True) or []
ListRelatives(n) ==
    CASE n = "|A" -> << "|A|s", "|A|o" >>
      [] n = "|B" -> << "|B|s" >>
      [] OTHER    -> << >>

\* iterating a Python str yields its characters
Chars(n) ==
    CASE n = "|A"   -> << "|", "A" >>
      [] n = "|B"   -> << "|", "B" >>
      [] n = "|G"   -> << "|", "G" >>
      [] n = "|A|s" -> << "|", "A", "|", "s" >>
      [] n = "|A|o" -> << "|", "A", "|", "o" >>
      [] n = "|B|s" -> << "|", "B", "|", "s" >>
      [] n = "j1"   -> << "j", "1" >>
      [] n = "j2"   -> << "j", "2" >>
      [] n = "j3"   -> << "j", "3" >>
      [] OTHER      -> << n >>

\* cmds.listConnections(o, type='skinCluster', destination=False, source=True, ...) or []
\* the host raises ValueError for a name that matches no node
ListConnections(o, conn) ==
    IF o \in Nodes THEN Ret(PyList(conn[o])) ELSE Raise("ValueError")


\* cmds.skinCluster(sc, query=True, influence=True) or []
SkinClusterInfluence(sc, infl) == infl[sc]

\* the UV sets of the meshes among and below the nodes of q, in order
RECURSIVE UVOfNodes(_, _)
UVOfNodes(q, uv) ==
    IF q = << >> THEN << >>
    ELSE LET n == Head(q)
             own == IF n \in MeshShapes THEN uv[n]
                    ELSE IF n \in Transforms THEN UVOfNodes(ListRelatives(n), uv)
                    ELSE << >>
         IN own \o UVOfNodes(Tail(q), uv)

\* cmds.polyUVSet(name, query=True, allUVSets=True) or [] : the outcomes the host can
\* produce.  With an empty object list the command falls back on the active selection,
\* or fails for want of an object.
PolyUVSet(names, uv, sel) ==
    IF IsList(names)
    THEN IF names.v = << >>
         THEN {Raise("RuntimeError"), Ret(PyList(UVOfNodes(sel, uv)))}
         ELSE {Ret(PyList(UVOfNodes(names.v, uv)))}
    ELSE IF names.v[1] \in MeshShapes
         THEN {Ret(PyList(uv[names.v[1]]))}
         ELSE {Raise("RuntimeError")}

----------------------------------------------------------------------------
(* The query helpers *)

\* lines 30-40: the loop over `name`; the value of `results` after it
RECURSIVE ScanConnections(_, _, _)
ScanConnections(items, i, conn) ==
    IF i > Len(items) THEN Ret(PyList(<< >>))
    ELSE LET r == ListConnections(items[i], conn)
         IN IF r.exc # "" THEN r
            ELSE IF Truthy(r.val) THEN r
            ELSE ScanConnections(items, i + 1, conn)

\* lines 20-25: `name` after the transform test
ShapesOrName(name) ==
    IF NodeType(name) = "transform" THEN PyList(ListRelatives(name)) ELSE PyStr(name)

\* lines 42-47: None for no result, else the first element
FirstOrNone(results) ==
    IF ~Truthy(results) THEN PyNone
    ELSE IF IsList(results) THEN PyStr(results.v[1])
    ELSE results

getSkinCluster(name, conn) ==
    LET names == ShapesOrName(name)
    IN IF ~Truthy(names) THEN Ret(PyList(<< >>))
       ELSE LET items == IF IsList(names) THEN names.v ELSE Chars(name)
                r == ScanConnections(items, 1, conn)
            IN IF r.exc # "" THEN r ELSE Ret(FirstOrNone(r.val))

getInfluence(name, conn, infl) ==
    IF name = "" THEN Ret(PyList(<< >>))
    ELSE LET sc == getSkinCluster(name, conn)
         IN IF sc.exc # "" THEN sc
            ELSE IF ~Truthy(sc.val) THEN Ret(PyList(<< >>))
            ELSE Ret(PyList(SkinClusterInfluence(sc.val.v[1], infl)))

\* the set of outcomes, one per outcome of the host's polyUVSet
getUVSet(name, uv, sel) ==
    IF name = "" THEN {Ret(PyList(<< >>))}
    ELSE PolyUVSet(ShapesOrName(name), uv, sel)

----------------------------------------------------------------------------
(* Host mutations *)

\* one entry of the log of host mutations
Call(cmd, objects, ss, ds, uv) ==
    [cmd |-> cmd, objects |-> objects, sourceSkin |-> ss, destinationSkin |-> ds,
     uvSpace |-> uv]

\* the nodes a skinCluster on obj deforms: the shapes of a transform, or obj itself
Deformed(obj) == IF obj \in Transforms THEN ListRelatives(obj) ELSE << obj >>

\* cmds.skinCluster(obj, edit=True, unbind=True): obj's shapes lose their skinCluster
HostUnbind(obj, conn) ==
    [n \in Nodes |-> IF InList(n, Deformed(obj)) THEN << >> ELSE conn[n]]

\* cmds.skinCluster(objects, toSelectedBones=True, ...): the outcomes the host can
\* produce.  It fails when objects[0] holds no geometry; with geometry and no joint it
\* either fails or makes a skinCluster without influences.  On success the new
\* skinCluster feeds the first shape, and the host may leave it selected.
HostBind(objects, conn, infl, sel) ==
    LET geo == Deformed(objects[1])
        joints == Tail(objects)
        done == {[exc |-> "",
                  conn |-> [n \in Nodes |-> IF n = geo[1] THEN << NewSkin >> \o conn[n]
                                            ELSE conn[n]],
                  infl |-> [infl EXCEPT ![NewSkin] = joints],
                  sel |-> s] : s \in {sel, << NewSkin >>}}
        failed == {[exc |-> "RuntimeError", conn |-> conn, infl |-> infl, sel |-> sel]}
    IN IF geo = << >> THEN failed
       ELSE IF joints = << >> THEN failed \cup done
       ELSE done

\* cmds.copySkinWeights(sourceSkin=.., destinationSkin=.., ...): the outcomes the host
\* can produce; it may reject an argument that names no skinCluster
HostCopySkinWeights(ss, ds) ==
    IF ss.t = "str" /\ ds.t = "str" THEN {""} ELSE {"", "TypeError"}

----------------------------------------------------------------------------
(* The initial scenes and arguments *)

Selectable == {"|A", "|B", "|G", "|A|s"}

NoRepeat(q) == \A i, j \in 1..Len(q) : i # j => q[i] # q[j]

\* the selection lists of at most n nodes of S: the host lists a node once
RECURSIVE SelectionLists(_, _)
SelectionLists(S, n) ==
    IF n = 0 THEN {<< >>}
    ELSE LET shorter == SelectionLists(S, n - 1)
         IN shorter \cup {q \in {Append(r, e) : r \in shorter, e \in S} : NoRepeat(q)}

Selections == SelectionLists(Selectable, MaxSel)

\* where scA feeds "|A": its deformed shape, its second shape, or nowhere
SkinOnA == {"deformed", "second", "unskinned"}
SkinOnB == { << >>, << "scB", "scC" >> }
UVChoices == { << >>, << "map1" >>, << "map1", "map2" >> }
UserUVChoices == {"", "map2", "uvX"}

InitInfluences ==
    [sc \in SkinClusters |->
        CASE sc = "scA" -> << "j1", "j2" >>
          [] sc = "scB" -> << "j2", "j3" >>
          [] sc = "scC" -> << "j3" >>
          [] sc = "scX" -> << "j1" >>
          [] OTHER      -> << >>]

Init ==
    /\ hostSelection \in Selections
    /\ userSourceUVSet \in UserUVChoices
    /\ userDestinationUVSet \in UserUVChoices
    /\ \E a \in SkinOnA, b \in SkinOnB :
          skinInputs = [n \in Nodes |->
                          CASE n = "|A|s" -> IF a = "deformed" THEN << "scA" >> ELSE << >>
                            [] n = "|A|o" -> IF a = "second" THEN << "scA" >> ELSE << >>
                            [] n = "|B|s" -> b
                            [] n = "x"    -> << "scX" >>
                            [] OTHER      -> << >>]
    /\ influences = InitInfluences
    /\ \E ua \in UVChoices, ub \in UVChoices :
          uvSets = [n \in MeshShapes |->
                      CASE n = "|A|s" -> ua
                        [] n = "|B|s" -> ub
                        [] OTHER      -> << >>]
    /\ selection = << >>
    /\ pc = "start"
    /\ exception = ""
    /\ calls = << >>
    /\ warnings = << >>
    /\ errors = << >>
    /\ sourceInfluence = PyList(<< >>)
    /\ destinationInfluence = PyList(<< >>)
    /\ sourceSkin = PyNone
    /\ destinationSkin = PyNone
    /\ sourceUVSet = PyList(<< >>)
    /\ destinationUVSet = PyList(<< >>)
    /\ uvReturned = << << >>, << >> >>
    /\ queried = ""
    /\ gscResult = Ret(PyNone)

----------------------------------------------------------------------------
(* main *)

selectMessage == "Select two objects. The reference and target meshes."
sourceMessage == "UV is not set on the source mesh.\nThe copy process has been cancelled."
destinationMessage ==
    "UV is not set on the destination mesh.\nThe copy process has been cancelled."

\* line 130
SelectionTooShort(sel) == Len(sel) < 2

\* the unbind issued whatever the destination's influences
NeedUnbind_Always(inf) == TRUE

\* line 142
NeedUnbind(inf) == Truthy(inf)

\* the destination appended instead of inserted at index 0
BindObjects_Appended(srcInf, dest) == srcInf.v \o << dest >>

\* lines 146-148: deepcopy of the source influences, destination inserted at index 0
BindObjects(srcInf, dest) == << dest >> \o srcInf.v

\* the membership test of the user's UV set left out
SourceUVCheck_NoMembership(user, uvs) ==
    LET chosen == IF user # "" /\ InList(user, uvs.v) THEN PyStr(user) ELSE uvs
    IN IF ~Truthy(chosen) THEN [out |-> "warn", val |-> chosen]
       ELSE IF IsList(chosen) THEN [out |-> "ok", val |-> PyStr(chosen.v[1])]
       ELSE [out |-> "ok", val |-> chosen]

\* lines 167-177: the source UV set to use, or the warning
SourceUVCheck(user, uvs) ==
    IF user # "" /\ ~InList(user, uvs.v) THEN [out |-> "warn", val |-> uvs]
    ELSE LET chosen == IF user # "" THEN PyStr(user) ELSE uvs
         IN IF ~Truthy(chosen) THEN [out |-> "warn", val |-> chosen]
            ELSE IF IsList(chosen) THEN [out |-> "ok", val |-> PyStr(chosen.v[1])]
            ELSE [out |-> "ok", val |-> chosen]

\* lines 181-191: the destination UV set to use, the warning, or the IndexError of
\* destinationUVSet[0]; line 187 tests the source UV set
DestinationUVCheck(user, uvs, src) ==
    IF user # "" /\ ~InList(user, uvs.v) THEN [out |-> "warn", val |-> uvs]
    ELSE LET chosen == IF user # "" THEN PyStr(user) ELSE uvs
         IN IF ~Truthy(src) THEN [out |-> "warn", val |-> chosen]
            ELSE IF IsList(chosen)
                 THEN IF chosen.v = << >> THEN [out |-> "IndexError", val |-> chosen]
                      ELSE [out |-> "ok", val |-> PyStr(chosen.v[1])]
            ELSE [out |-> "ok", val |-> chosen]

\* the two UV sets in the wrong order
UVSpace_Swapped(src, dst) == << dst.v[1], src.v[1] >>

\* line 198
UVSpace(src, dst) == << src.v[1], dst.v[1] >>

\* only the destination re-selected
SelectObjects_DestinationOnly(sel) == << sel[2] >>

\* line 202: the list handed to cmds.select(.., r=True)
SelectObjects(sel) == sel

hostVars == << skinInputs, influences, uvSets, hostSelection >>
argVars == << userSourceUVSet, userDestinationUVSet >>
localVars == << sourceInfluence, destinationInfluence, sourceSkin, destinationSkin,
                sourceUVSet, destinationUVSet, uvReturned >>
directVars == << queried, gscResult >>

\* lines 129-132
SelectionError ==
    /\ pc = "start"
    /\ SelectionTooShort(hostSelection)
    /\ selection' = hostSelection
    /\ errors' = Append(errors, selectMessage)
    /\ pc' = "error"
    /\ UNCHANGED << hostVars, argVars, localVars, directVars, exception, calls, warnings >>

\* lines 129-135
SelectionOk ==
    /\ pc = "start"
    /\ ~SelectionTooShort(hostSelection)
    /\ selection' = hostSelection
    /\ pc' = "influence"
    /\ UNCHANGED << hostVars, argVars, localVars, directVars, exception, calls, warnings,
                    errors >>

\* lines 138-139
GetInfluences ==
    /\ pc = "influence"
    /\ LET s == getInfluence(selection[1], skinInputs, influences)
           d == getInfluence(selection[2], skinInputs, influences)
       IN IF s.exc # "" \/ d.exc # ""
          THEN /\ exception' = IF s.exc # "" THEN s.exc ELSE d.exc
               /\ pc' = "raised"
               /\ UNCHANGED << sourceInfluence, destinationInfluence >>
          ELSE /\ sourceInfluence' = s.val
               /\ destinationInfluence' = d.val
               /\ pc' = "unbind"
               /\ UNCHANGED exception
    /\ UNCHANGED << selection, hostVars, argVars, directVars, calls, warnings, errors,
                    sourceSkin, destinationSkin, sourceUVSet, destinationUVSet,
                    uvReturned >>

\* lines 142-143
Unbind ==
    /\ pc = "unbind"
    /\ IF NeedUnbind(destinationInfluence)
       THEN /\ calls' = Append(calls, Call("unbind", << selection[2] >>, PyNone, PyNone,
                                           << >>))
            /\ skinInputs' = HostUnbind(selection[2], skinInputs)
       ELSE UNCHANGED << calls, skinInputs >>
    /\ pc' = "bind"
    /\ UNCHANGED << selection, influences, uvSets, hostSelection, argVars, localVars,
                    directVars, exception, warnings, errors >>

\* lines 146-157
Bind ==
    /\ pc = "bind"
    /\ LET objects == BindObjects(sourceInfluence, selection[2])
       IN /\ calls' = Append(calls, Call("bind", objects, PyNone, PyNone, << >>))
          /\ \E h \in HostBind(objects, skinInputs, influences, hostSelection) :
                /\ skinInputs' = h.conn
                /\ influences' = h.infl
                /\ hostSelection' = h.sel
                /\ exception' = h.exc
                /\ pc' = IF h.exc = "" THEN "query" ELSE "raised"
    /\ UNCHANGED << selection, uvSets, argVars, localVars, directVars, warnings, errors >>

\* lines 160-163
Query ==
    /\ pc = "query"
    /\ LET ss == getSkinCluster(selection[1], skinInputs)
           ds == getSkinCluster(selection[2], skinInputs)
       IN \E su \in getUVSet(selection[1], uvSets, hostSelection),
             du \in getUVSet(selection[2], uvSets, hostSelection) :
             LET failed == << ss.exc, ds.exc, su.exc, du.exc >>
                 first == CHOOSE i \in 1..5 :
                             /\ i = 5 \/ failed[i] # ""
                             /\ \A j \in 1..(i - 1) : failed[j] = ""
             IN IF first < 5
                THEN /\ exception' = failed[first]
                     /\ pc' = "raised"
                     /\ UNCHANGED << sourceSkin, destinationSkin, sourceUVSet,
                                     destinationUVSet, uvReturned >>
                ELSE /\ sourceSkin' = ss.val
                     /\ destinationSkin' = ds.val
                     /\ sourceUVSet' = su.val
                     /\ destinationUVSet' = du.val
                     /\ uvReturned' = << su.val.v, du.val.v >>
                     /\ pc' = "srcuv"
                     /\ UNCHANGED exception
    /\ UNCHANGED << selection, hostVars, argVars, directVars, calls, warnings, errors,
                    sourceInfluence, destinationInfluence >>

\* the return of line 171 left out: after the warning for a name that is not one of
\* the source's UV sets, main goes on with the first UV set of the list
CheckSourceUV_NoReturn ==
    /\ pc = "srcuv"
    /\ LET c == SourceUVCheck(userSourceUVSet, sourceUVSet)
           goesOn == c.out = "warn" /\ Truthy(sourceUVSet)
       IN /\ sourceUVSet' = IF goesOn THEN PyStr(sourceUVSet.v[1]) ELSE c.val
          /\ warnings' = IF c.out = "warn" THEN Append(warnings, sourceMessage)
                         ELSE warnings
          /\ pc' = IF c.out = "warn" /\ ~goesOn THEN "warned" ELSE "dstuv"
    /\ UNCHANGED << selection, hostVars, argVars, directVars, exception, calls, errors,
                    sourceInfluence, destinationInfluence, sourceSkin, destinationSkin,
                    destinationUVSet, uvReturned >>

\* lines 165-177
CheckSourceUV ==
    /\ pc = "srcuv"
    /\ LET c == SourceUVCheck(userSourceUVSet, sourceUVSet)
       IN /\ sourceUVSet' = c.val
          /\ IF c.out = "warn"
             THEN /\ warnings' = Append(warnings, sourceMessage)
                  /\ pc' = "warned"
             ELSE /\ pc' = "dstuv"
                  /\ UNCHANGED warnings
    /\ UNCHANGED << selection, hostVars, argVars, directVars, exception, calls, errors,
                    sourceInfluence, destinationInfluence, sourceSkin, destinationSkin,
                    destinationUVSet, uvReturned >>

\* lines 179-191
CheckDestinationUV ==
    /\ pc = "dstuv"
    /\ LET c == DestinationUVCheck(userDestinationUVSet, destinationUVSet, sourceUVSet)
       IN /\ destinationUVSet' = c.val
          /\ IF c.out = "warn"
             THEN /\ warnings' = Append(warnings, destinationMessage)
                  /\ pc' = "warned"
                  /\ UNCHANGED exception
             ELSE IF c.out = "IndexError"
             THEN /\ exception' = "IndexError"
                  /\ pc' = "raised"
                  /\ UNCHANGED warnings
             ELSE /\ pc' = "copy"
                  /\ UNCHANGED << warnings, exception >>
    /\ UNCHANGED << selection, hostVars, argVars, directVars, calls, errors,
                    sourceInfluence, destinationInfluence, sourceSkin, destinationSkin,
                    sourceUVSet, uvReturned >>

\* lines 193-200
CopySkinWeights ==
    /\ pc = "copy"
    /\ calls' = Append(calls, Call("copySkinWeights", << >>, sourceSkin, destinationSkin,
                                   UVSpace(sourceUVSet, destinationUVSet)))
    /\ \E e \in HostCopySkinWeights(sourceSkin, destinationSkin) :
          /\ exception' = e
          /\ pc' = IF e = "" THEN "select" ELSE "raised"
    /\ UNCHANGED << selection, hostVars, argVars, localVars, directVars, warnings,
                    errors >>

\* line 202
Select ==
    /\ pc = "select"
    /\ calls' = Append(calls, Call("select", SelectObjects(selection), PyNone, PyNone,
                                   << >>))
    /\ hostSelection' = SelectObjects(selection)
    /\ pc' = "done"
    /\ UNCHANGED << selection, skinInputs, influences, uvSets, argVars, localVars,
                    directVars, exception, warnings, errors >>

\* a direct call getSkinCluster(name=n) on a node of the scene
CallGetSkinCluster ==
    /\ pc = "start"
    /\ \E n \in Nodes :
          /\ queried' = n
          /\ gscResult' = getSkinCluster(n, skinInputs)
    /\ pc' = "returned"
    /\ UNCHANGED << selection, hostVars, argVars, localVars, exception, calls, warnings,
                    errors >>

Next ==
    \/ SelectionError
    \/ SelectionOk
    \/ GetInfluences
    \/ Unbind
    \/ Bind
    \/ Query
    \/ CheckSourceUV
    \/ CheckDestinationUV
    \/ CopySkinWeights
    \/ Select
    \/ CallGetSkinCluster

Spec == Init /\ [][Next]_vars

----------------------------------------------------------------------------
(* Properties *)

CallsOf(cmd) == {i \in 1..Len(calls) : calls[i].cmd = cmd}
Issued(cmd) == CallsOf(cmd) # {}

\* main has taken the selection and is past line 129
InMain == pc \notin {"start", "returned"}

\* the source UV checks of lines 167-177 have been evaluated
SourceChecked ==
    \/ pc \in {"warned", "dstuv", "copy", "select", "done"}
    \/ pc = "raised" /\ exception \in {"IndexError", "TypeError"}

\* the source UV checks passed and the destination checks of lines 181-191 were evaluated
DestinationChecked ==
    /\ sourceUVSet.t = "str"
    /\ \/ pc \in {"warned", "copy", "select", "done"}
       \/ pc = "raised" /\ exception \in {"IndexError", "TypeError"}

\* the influences of the skinCluster that feeds the first skinned shape of transform obj
\* in the scene, read off the scene itself
SceneInfluences(obj) ==
    LET shapes == ListRelatives(obj)
        skinned == {i \in 1..Len(shapes) : skinInputs[shapes[i]] # << >>}
    IN IF skinned = {} THEN << >>
       ELSE LET first == CHOOSE i \in skinned : \A j \in skinned : i <= j
            IN influences[skinInputs[shapes[first]][1]]

\* C1: main requires exactly two selected objects: with any other number of selected
\* objects it reports the error and issues no host mutation.
C1_ExactlyTwoRequired ==
    (InMain /\ Len(selection) # 2) =>
        (pc = "error" /\ errors = << selectMessage >> /\ calls = << >>)

\* C2: when the destination mesh has no UV set and no destination UV set name is given,
\* main emits the destination warning and returns normally without copySkinWeights.
C2_DestinationWarning ==
    (DestinationChecked /\ uvReturned[2] = << >> /\ userDestinationUVSet = "") =>
        (/\ pc = "warned"
         /\ exception = ""
         /\ warnings = << destinationMessage >>
         /\ ~Issued("copySkinWeights"))

\* C3: when the source mesh has no UV set, or a given source UV set name is not one of
\* the source mesh's UV sets, main emits the source warning exactly once and returns
\* without copySkinWeights and without evaluating the destination UV checks.
C3_SourceWarning ==
    (/\ SourceChecked
     /\ \/ uvReturned[1] = << >>
        \/ userSourceUVSet # "" /\ ~InList(userSourceUVSet, uvReturned[1])) =>
        (/\ pc = "warned"
         /\ exception = ""
         /\ warnings = << sourceMessage >>
         /\ ~Issued("copySkinWeights")
         /\ destinationUVSet = PyList(uvReturned[2]))

C3_Witness ==
    /\ pc = "warned"
    /\ warnings = << sourceMessage >>
    /\ userSourceUVSet = "uvX"
    /\ uvReturned[1] = << "map1", "map2" >>
    /\ uvReturned[2] # << >>

\* C4: every bind call receives the destination object first and then exactly the
\* influences of the source object's skin cluster, in order; there is at most one.
C4_BindObjects ==
    /\ Cardinality(CallsOf("bind")) <= 1
    /\ \A i \in CallsOf("bind") :
          /\ calls[i].objects[1] = selection[2]
          /\ Tail(calls[i].objects) = SceneInfluences(selection[1])

C4_Witness ==
    /\ Issued("unbind")
    /\ \E i \in CallsOf("bind") :
          /\ calls[i].objects = << "|B", "j1", "j2" >>
          /\ selection[1] = "|A"
          /\ ~InList("j3", calls[i].objects)

\* the UV set main is to pass for one side
ExpectedUV(user, uvs) == IF user # "" THEN user ELSE uvs[1]

\* C5: copySkinWeights gets uvSpace = [source choice, destination choice], a choice
\* being the given name when it is one of the mesh's UV sets and the mesh's first UV set
\* when no name is given; with a given name that is not one of the mesh's UV sets main
\* warns and never calls copySkinWeights.
C5_UVChoice ==
    /\ \A i \in CallsOf("copySkinWeights") :
          /\ userSourceUVSet # "" => InList(userSourceUVSet, uvReturned[1])
          /\ userDestinationUVSet # "" => InList(userDestinationUVSet, uvReturned[2])
          /\ userSourceUVSet = "" => uvReturned[1] # << >>
          /\ userDestinationUVSet = "" => uvReturned[2] # << >>
          /\ calls[i].uvSpace = << ExpectedUV(userSourceUVSet, uvReturned[1]),
                                   ExpectedUV(userDestinationUVSet, uvReturned[2]) >>
    /\ (SourceChecked /\ userSourceUVSet # ""
            /\ ~InList(userSourceUVSet, uvReturned[1])) =>
          (pc = "warned" /\ warnings = << sourceMessage >>)
    /\ (DestinationChecked /\ userDestinationUVSet # ""
            /\ ~InList(userDestinationUVSet, uvReturned[2])) =>
          (pc = "warned" /\ warnings = << destinationMessage >>)

C5_Witness ==
    /\ userSourceUVSet = "map2"
    /\ userDestinationUVSet = ""
    /\ uvReturned = << << "map1", "map2" >>, << "map1", "map2" >> >>
    /\ \E i \in CallsOf("copySkinWeights") : calls[i].uvSpace = << "map2", "map1" >>

Rank(cmd) ==
    CASE cmd = "unbind" -> 1
      [] cmd = "bind" -> 2
      [] cmd = "copySkinWeights" -> 3
      [] cmd = "select" -> 4

\* C6: within one call of main the host mutations come in the order unbind, bind,
\* copySkinWeights, select, each at most once; the unbind is issued exactly when the
\* destination had an influence at the start; once the bind step is passed the bind has
\* been issued exactly once; copySkinWeights follows the bind and select follows
\* copySkinWeights.
C6_Order ==
    /\ \A i, j \in 1..Len(calls) : i < j => Rank(calls[i].cmd) < Rank(calls[j].cmd)
    /\ pc = "unbind" => destinationInfluence.v = SceneInfluences(selection[2])
    /\ Issued("bind") => (Issued("unbind") <=> destinationInfluence.v # << >>)
    /\ Issued("unbind") => pc # "unbind"
    /\ pc \in {"query", "srcuv", "dstuv", "copy", "select", "done", "warned"} =>
          Cardinality(CallsOf("bind")) = 1
    /\ Issued("copySkinWeights") => Issued("bind")
    /\ Issued("select") => Issued("copySkinWeights")

C6_Witness ==
    /\ pc = "done"
    /\ Len(calls) = 4
    /\ calls[1].cmd = "unbind"
    /\ calls[2].cmd = "bind"
    /\ calls[3].cmd = "copySkinWeights"
    /\ calls[4].cmd = "select"

\* the skinClusters feeding the first skinned node of q
RECURSIVE FirstSkinned(_)
FirstSkinned(q) ==
    IF q = << >> THEN << >>
    ELSE IF skinInputs[Head(q)] # << >> THEN skinInputs[Head(q)]
    ELSE FirstSkinned(Tail(q))

\* C7: getSkinCluster returns one skin cluster name: for a transform the first
\* skinCluster feeding its first skinned shape, for any other node the first skinCluster
\* feeding that node, None when there is none; never a list.
C7_SingleNameOrNone ==
    pc = "returned" =>
        LET examined == IF queried \in Transforms THEN ListRelatives(queried)
                        ELSE << queried >>
            found == FirstSkinned(examined)
        IN /\ gscResult.exc = ""
           /\ gscResult.val.t # "list"
           /\ gscResult.val = IF found = << >> THEN PyNone ELSE PyStr(found[1])

\* C8: a run of main that completes after copySkinWeights ends with a select, in
\* replace mode, of exactly the list the initial selection query returned, so the host
\* selection is that list again.
C8_SelectionRestored ==
    pc = "done" =>
        /\ Issued("copySkinWeights")
        /\ calls[Len(calls)].cmd = "select"
        /\ calls[Len(calls)].objects = selection
        /\ hostSelection = selection

C8_Witness ==
    /\ pc = "done"
    /\ Len(selection) = 3
    /\ calls[Len(calls)].cmd = "select"
    /\ hostSelection = selection

\* C9 as stated: a run that reports an error or a warning has issued no unbind and no
\* bind.
C9_NoMutationBeforeFailure ==
    (errors # << >> \/ warnings # << >>) => (~Issued("unbind") /\ ~Issued("bind"))

\* C9 amended: a run that reports the selection error has issued no host mutation; a
\* run that reports a UV warning ends there with the bind issued exactly once and
\* neither copySkinWeights nor select issued.
C9_OnlyCopyCancelled ==
    /\ errors # << >> => (pc = "error" /\ calls = << >> /\ warnings = << >>)
    /\ warnings # << >> =>
          /\ pc = "warned"
          /\ Len(warnings) = 1
          /\ errors = << >>
          /\ Cardinality(CallsOf("bind")) = 1
          /\ ~Issued("copySkinWeights")
          /\ ~Issued("select")

C9_Witness ==
    /\ pc = "warned"
    /\ Issued("unbind")
    /\ Issued("bind")
    /\ skinInputs["|B|s"] = << NewSkin >>

\* C10: every copySkinWeights call names a skin cluster of the source object as
\* sourceSkin and the skin cluster the bind created on the destination as
\* destinationSkin; neither is None or a list.
C10_RealSkinClusters ==
    \A i \in CallsOf("copySkinWeights") :
        /\ calls[i].sourceSkin.t = "str"
        /\ calls[i].destinationSkin = PyStr(NewSkin)
        /\ \E k \in 1..Len(ListRelatives(selection[1])) :
              InList(calls[i].sourceSkin.v[1], skinInputs[ListRelatives(selection[1])[k]])

====
